---- MODULE Spec2Model ----
(***************************************************************************)
(* Model of xls_to_json.py: a two-sheet workbook is loaded, its cells are  *)
(* normalised, every project row becomes an entry with the distribution    *)
(* rows matched to it, and the entries are written as one JSON file.       *)
(*                                                                         *)
(* A Python string is a sequence of one-character strings; the em dash,    *)
(* the en dash and the backtick are the characters "EMDASH", "ENDASH" and  *)
(* "BACKTICK".  A Python value is a record [t, v]: t is its type ("str",   *)
(* "int", "nan" for the float NaN pandas gives a blank cell, "none"), v is *)
(* the text of a str or the decimal digits of an int.                      *)
(***************************************************************************)
EXTENDS Integers, Sequences, FiniteSets, TLC

VARIABLES file, pc, proj, dist, entries, subsets, out_file, writes, printed, error

vars == <<file, pc, proj, dist, entries, subsets, out_file, writes, printed, error>>

\* ------------------------------------------------------------ bounds
MaxLen == 3
MaxProjRows == 2
MaxDistRows == 2

\* ------------------------------------------------------------ Python values
PyStr(s) == [t |-> "str", v |-> s]
PyInt(s) == [t |-> "int", v |-> s]
NaN == [t |-> "nan", v |-> <<>>]
None == [t |-> "none", v |-> <<>>]
Empty == PyStr(<<>>)
Dash == PyStr(<<"-">>)

\* str(x)
Str(x) ==
  CASE x.t = "none" -> <<"N", "o", "n", "e">>
    [] x.t = "nan" -> <<"n", "a", "n">>
    [] OTHER -> x.v

IsSpace(c) == c \in {" ", "\t"}

RECURSIVE lstrip(_)
lstrip(s) == IF s # <<>> /\ IsSpace(Head(s)) THEN lstrip(Tail(s)) ELSE s

RECURSIVE rstrip(_)
rstrip(s) ==
  IF s # <<>> /\ IsSpace(s[Len(s)]) THEN rstrip(SubSeq(s, 1, Len(s) - 1)) ELSE s

\* str.strip()
strip(s) == rstrip(lstrip(s))

LowerChar(c) ==
  CASE c = "A" -> "a"
    [] c = "B" -> "b"
    [] c = "N" -> "n"
    [] OTHER -> c

\* str.lower()
lower(s) == [k \in 1..Len(s) |-> LowerChar(s[k])]

\* truthiness of a value, as `x or ""` and `v if cond else w` use it
Truthy(x) ==
  CASE x.t = "none" -> FALSE
    [] x.t = "str" -> x.v # <<>>
    [] x.t = "int" -> x.v # <<"0">>
    [] OTHER -> TRUE

\* pandas' isna
IsNA(x) == x.t \in {"nan", "none"}

\* ------------------------------------------------------------ normalisers
PLACEHOLDERS ==
  { <<>>, <<"-">>, <<"EMDASH">>, <<"ENDASH">>, <<"BACKTICK">>,
    <<"n", "a", "n">>, <<"N", "a", "N">>, <<"N", "o", "n", "e">> }

is_placeholder_nostrip(x) ==
  IF x.t = "none" THEN TRUE ELSE Str(x) \in PLACEHOLDERS

is_placeholder(x) ==
  IF x.t = "none" THEN TRUE ELSE strip(Str(x)) \in PLACEHOLDERS

normalize_string(x) ==
  IF is_placeholder(x) THEN Empty ELSE PyStr(strip(Str(x)))

normalize_id(x) ==
  IF is_placeholder(x) THEN Empty ELSE PyStr(strip(Str(x)))

IsDigit(c) == c \in {"0", "1", "2", "3", "4", "5", "6", "7", "8", "9"}

\* the text without its currency symbols and thousands separators
StripMoney(s) == SelectSeq(s, LAMBDA c : c \notin {"$", ","})

\* the text is a run of digits, a minus sign allowed before it
IsIntegral(s) ==
  LET d == IF s # <<>> /\ Head(s) = "-" THEN Tail(s) ELSE s
  IN d # <<>> /\ \A k \in 1..Len(d) : IsDigit(d[k])

\* the trimmed text parsed as a number where it is one, else the trimmed text
ParseNumberLike(x) ==
  IF IsIntegral(StripMoney(strip(Str(x))))
    THEN PyInt(StripMoney(strip(Str(x))))
    ELSE PyStr(strip(Str(x)))

normalize_number_like_parsing(x) ==
  IF is_placeholder(x) THEN Dash ELSE ParseNumberLike(x)

normalize_number_like(x) ==
  IF is_placeholder(x) THEN Dash ELSE PyStr(strip(Str(x)))

\* ------------------------------------------------------------ load_sheets
ProjRename(h) ==
  CASE h = "Project Name" -> "project_name"
    [] h = "Project ID" -> "project_id"
    [] h = "Subproject Name" -> "subproject_name"
    [] h = "Subproject ID" -> "subproject_id"
    [] h = "Year Announced" -> "year_announced"
    [] h = "Effective Period" -> "effective_period"
    [] h = "Country / Region" -> "country_region"
    [] h = "Type & Status" -> "type_and_status"
    [] h = "Numbers" -> "numbers"
    [] h = "Targeted Firms or Parts of Value Chain" -> "targeted_entities"
    [] h = "Notes / Description" -> "notes"
    [] h = "Source" -> "sources"
    [] OTHER -> h

DistRename(h) ==
  CASE h = "Project Name" -> "project_name"
    [] h = "Project ID" -> "project_id"
    [] h = "Subproject Name" -> "subproject_name"
    [] h = "Subproject ID" -> "subproject_id"
    [] h = "Distribution Name" -> "distribution_name"
    [] h = "Distribution ID" -> "distribution_id"
    [] h = "Year Announced" -> "year_announced"
    [] h = "Effective Period" -> "effective_period"
    [] h = "Country" -> "country_region"
    [] h = "Type & Status" -> "type_and_status"
    [] h = "Numbers" -> "numbers"
    [] h = "Targeted Firms or Parts of Value Chain" -> "targeted_entities"
    [] h = "Notes / Description" -> "notes"
    [] h = "Source" -> "sources"
    [] OTHER -> h

\* the header pandas gives a column with no header cell
UnnamedHeader == "Unnamed: 12"

\* columns.str.startswith("Unnamed")
StartsWithUnnamed(n) == n = UnnamedHeader

\* pd.read_excel: a sheet [cols, rows] becomes a frame whose rows carry the
\* index labels 0, 1, ...
ReadSheet(sheet) ==
  [cols |-> sheet.cols,
   rows |-> [k \in 1..Len(sheet.rows) |-> [idx |-> k - 1, c |-> sheet.rows[k]]]]

\* DataFrame.rename(columns = map), map given on the frame's columns
RenameFrame(df, map) ==
  LET newcols == {map[h] : h \in df.cols}
      Old(n) == CHOOSE h \in df.cols : map[h] = n
  IN [cols |-> newcols,
      rows |-> [k \in 1..Len(df.rows) |->
                 [idx |-> df.rows[k].idx,
                  c |-> [n \in newcols |-> df.rows[k].c[Old(n)]]]]]

\* proj.loc[:, ~proj.columns.str.startswith("Unnamed")]
DropUnnamed(df) ==
  LET keep == {n \in df.cols : ~StartsWithUnnamed(n)}
  IN [cols |-> keep,
      rows |-> [k \in 1..Len(df.rows) |->
                 [idx |-> df.rows[k].idx,
                  c |-> [n \in keep |-> df.rows[k].c[n]]]]]

dropna_any(df) ==
  [cols |-> df.cols,
   rows |-> SelectSeq(df.rows, LAMBDA r : \A n \in df.cols : ~IsNA(r.c[n]))]

\* DataFrame.dropna(how = "all")
dropna(df) ==
  [cols |-> df.cols,
   rows |-> SelectSeq(df.rows, LAMBDA r : ~(\A n \in df.cols : IsNA(r.c[n])))]

LoadProj(sheet) ==
  dropna(DropUnnamed(RenameFrame(ReadSheet(sheet),
                                 [h \in sheet.cols |-> ProjRename(h)])))

LoadDist(sheet) ==
  dropna(RenameFrame(ReadSheet(sheet), [h \in sheet.cols |-> DistRename(h)]))

\* ------------------------------------------------------------ prepare
TextCols ==
  {"project_name", "subproject_name", "country_region", "type_and_status",
   "targeted_entities", "notes", "sources", "effective_period"}

IdCols == {"project_id", "subproject_id"}

\* the leading run of four digits of the trimmed text, else the trimmed text
LeadingYear(x) ==
  LET s == strip(Str(x))
  IN IF Len(s) >= 4 /\ \A k \in 1..4 : IsDigit(s[k])
       THEN PyStr(SubSeq(s, 1, 4))
       ELSE PyStr(s)

PrepareCell_year_run(n, x) ==
  IF n \in TextCols THEN normalize_string(x)
  ELSE IF n = "year_announced"
    THEN (IF is_placeholder(x) THEN Empty ELSE LeadingYear(x))
  ELSE IF n \in IdCols THEN normalize_id(x)
  ELSE IF n = "numbers" THEN normalize_number_like(x)
  ELSE x

\* the normaliser prepare applies to a cell of column n
PrepareCell(n, x) ==
  IF n \in TextCols THEN normalize_string(x)
  ELSE IF n = "year_announced" THEN normalize_string(x)
  ELSE IF n \in IdCols THEN normalize_id(x)
  ELSE IF n = "numbers" THEN normalize_number_like(x)
  ELSE x

LcCols(cols) ==
  {n \in {"project_name_lc", "subproject_name_lc"} :
     (IF n = "project_name_lc" THEN "project_name" ELSE "subproject_name") \in cols}

PrepareRow(cols, c) ==
  [n \in cols \cup LcCols(cols) |->
     IF n \notin cols /\ n = "project_name_lc"
       THEN PyStr(lower(PrepareCell("project_name", c["project_name"]).v))
     ELSE IF n \notin cols /\ n = "subproject_name_lc"
       THEN PyStr(lower(PrepareCell("subproject_name", c["subproject_name"]).v))
     ELSE PrepareCell(n, c[n])]

prepare(df) ==
  [cols |-> df.cols \cup LcCols(df.cols),
   rows |-> [k \in 1..Len(df.rows) |->
              [idx |-> df.rows[k].idx, c |-> PrepareRow(df.cols, df.rows[k].c)]]]

\* ------------------------------------------------------------ build_distributions
\* Series.get / dict.get with a default
Get(c, n, d) == IF n \in DOMAIN c THEN c[n] ELSE d

\* Series.fillna("")
fillna(x) == IF IsNA(x) THEN Empty ELSE x

\* x or ""
OrEmpty(x) == IF Truthy(x) THEN x ELSE Empty

KeyCols == {"project_name", "project_id", "subproject_name", "subproject_id"}

\* `v if str(w).strip() else "-"` of the numbers field
NumbersOut(c) ==
  IF strip(Str(Get(c, "numbers", Empty))) # <<>> THEN Get(c, "numbers", Dash) ELSE Dash

strict_no_project_id(index_row, c) ==
  /\ fillna(c["subproject_id"]) = OrEmpty(index_row.subproject_id)
  /\ fillna(c["subproject_name"]) = OrEmpty(index_row.subproject_name)
  /\ fillna(c["project_name"]) = OrEmpty(index_row.project_name)

strict(index_row, c) ==
  /\ fillna(c["project_id"]) = OrEmpty(index_row.project_id)
  /\ fillna(c["subproject_id"]) = OrEmpty(index_row.subproject_id)
  /\ fillna(c["subproject_name"]) = OrEmpty(index_row.subproject_name)
  /\ fillna(c["project_name"]) = OrEmpty(index_row.project_name)

fallback_with_project_id(index_row, c) ==
  /\ fillna(c["project_name_lc"]) = PyStr(lower(OrEmpty(index_row.project_name).v))
  /\ fillna(c["subproject_name_lc"]) = PyStr(lower(OrEmpty(index_row.subproject_name).v))
  /\ fillna(c["subproject_id"]) = OrEmpty(index_row.subproject_id)
  /\ fillna(c["project_id"]) = OrEmpty(index_row.project_id)

fallback(index_row, c) ==
  /\ fillna(c["project_name_lc"]) = PyStr(lower(OrEmpty(index_row.project_name).v))
  /\ fillna(c["subproject_name_lc"]) = PyStr(lower(OrEmpty(index_row.subproject_name).v))
  /\ fillna(c["subproject_id"]) = OrEmpty(index_row.subproject_id)

\* dist["project_id"] and the like raise KeyError on an absent column
RaisesKeyError(df) == ~(KeyCols \subseteq df.cols)

subset_merged(index_row, df) ==
  SelectSeq(df.rows, LAMBDA r : strict(index_row, r.c) \/ fallback(index_row, r.c))

\* the frame `subset` of build_distributions: dist.loc[strict], or
\* dist.loc[fallback] when that is empty
subset(index_row, df) ==
  LET s == SelectSeq(df.rows, LAMBDA r : strict(index_row, r.c))
  IN IF s = <<>>
       THEN SelectSeq(df.rows, LAMBDA r : fallback(index_row, r.c))
       ELSE s

DistOut(c) ==
  [distribution_name |-> Get(c, "distribution_name", Empty),
   distribution_id |-> Get(c, "distribution_id", Empty),
   year_announced |-> Get(c, "year_announced", Empty),
   effective_period |-> Get(c, "effective_period", Empty),
   country_region |-> Get(c, "country_region", Empty),
   type_and_status |-> Get(c, "type_and_status", Empty),
   numbers |-> NumbersOut(c),
   targeted_entities |-> Get(c, "targeted_entities", Empty),
   notes |-> Get(c, "notes", Empty),
   sources |-> Get(c, "sources", Empty)]

build_distributions(index_row, df) ==
  LET s == subset(index_row, df)
  IN [k \in 1..Len(s) |-> DistOut(s[k].c)]

\* ------------------------------------------------------------ convert
\* the entry dict of one project row, before its distributions are attached
EntryOf(c) ==
  [project_name |-> Get(c, "project_name", Empty),
   project_id |-> normalize_id(Get(c, "project_id", Empty)),
   year_announced |-> normalize_string(Get(c, "year_announced", Empty)),
   effective_period |-> Get(c, "effective_period", Empty),
   country_region |-> Get(c, "country_region", Empty),
   type_and_status |-> Get(c, "type_and_status", Empty),
   numbers |-> NumbersOut(c),
   targeted_entities |-> Get(c, "targeted_entities", Empty),
   notes |-> Get(c, "notes", Empty),
   sources |-> Get(c, "sources", Empty),
   subproject_name |-> normalize_string(Get(c, "subproject_name", Empty)),
   subproject_id |-> normalize_id(Get(c, "subproject_id", Empty)),
   distributions |-> <<>>]

NoFrame == [cols |-> {}, rows |-> <<>>]

\* load_sheets fails: the workbook or one of the two sheets is missing
LoadFails ==
  /\ pc = "start"
  /\ ~(file.exists /\ file.has_proj /\ file.has_dist)
  /\ pc' = "error"
  /\ error' = IF file.exists THEN "ValueError" ELSE "FileNotFoundError"
  /\ UNCHANGED <<file, proj, dist, entries, subsets, out_file, writes, printed>>

LoadSheets ==
  /\ pc = "start"
  /\ file.exists /\ file.has_proj /\ file.has_dist
  /\ proj' = LoadProj(file.proj)
  /\ dist' = LoadDist(file.dist)
  /\ pc' = "loaded"
  /\ UNCHANGED <<file, entries, subsets, out_file, writes, printed, error>>

Prepare ==
  /\ pc = "loaded"
  /\ proj' = prepare(proj)
  /\ dist' = prepare(dist)
  /\ pc' = "prepared"
  /\ UNCHANGED <<file, entries, subsets, out_file, writes, printed, error>>

\* one iteration of `for _, row in proj.iterrows()`
BuildEntry ==
  /\ pc = "prepared"
  /\ Len(entries) < Len(proj.rows)
  /\ ~RaisesKeyError(dist)
  /\ LET entry == EntryOf(proj.rows[Len(entries) + 1].c)
     IN /\ entries' = Append(entries,
                        [entry EXCEPT !.distributions = build_distributions(entry, dist)])
        /\ subsets' = Append(subsets,
                        [k \in 1..Len(subset(entry, dist)) |-> subset(entry, dist)[k].idx])
  /\ UNCHANGED <<file, pc, proj, dist, out_file, writes, printed, error>>

\* the iteration in which build_distributions raises
BuildEntryRaises ==
  /\ pc = "prepared"
  /\ Len(entries) < Len(proj.rows)
  /\ RaisesKeyError(dist)
  /\ pc' = "error"
  /\ error' = "KeyError"
  /\ UNCHANGED <<file, proj, dist, entries, subsets, out_file, writes, printed>>

WriteOutput_partial ==
  /\ pc = "prepared"
  /\ Len(entries) >= 1
  /\ out_file' = [exists |-> TRUE, content |-> entries]
  /\ writes' = writes + 1
  /\ pc' = "written"
  /\ UNCHANGED <<file, proj, dist, entries, subsets, printed, error>>

\* out_path.write_text(json.dumps(entries, ...))
WriteOutput ==
  /\ pc = "prepared"
  /\ Len(entries) = Len(proj.rows)
  /\ out_file' = [exists |-> TRUE, content |-> entries]
  /\ writes' = writes + 1
  /\ pc' = "written"
  /\ UNCHANGED <<file, proj, dist, entries, subsets, printed, error>>

\* main's print after convert returned
MainPrint ==
  /\ pc = "written"
  /\ printed' = Len(entries)
  /\ pc' = "done"
  /\ UNCHANGED <<file, proj, dist, entries, subsets, out_file, writes, error>>

Next ==
  \/ LoadFails
  \/ LoadSheets
  \/ Prepare
  \/ BuildEntry
  \/ BuildEntryRaises
  \/ WriteOutput
  \/ MainPrint

\* ------------------------------------------------------------ workbooks
ProjHeaders ==
  {"Project Name", "Project ID", "Subproject Name", "Subproject ID",
   "Year Announced", "Effective Period", "Country / Region", "Type & Status",
   "Numbers", "Targeted Firms or Parts of Value Chain", "Notes / Description",
   "Source", UnnamedHeader}

DistHeaders ==
  {"Project Name", "Project ID", "Subproject Name", "Subproject ID",
   "Distribution Name", "Distribution ID", "Year Announced", "Effective Period",
   "Country", "Type & Status", "Numbers",
   "Targeted Firms or Parts of Value Chain", "Notes / Description", "Source",
   UnnamedHeader}

\* a project sheet row: the cells named, every other cell blank
ProjRow(pn, pid, spn, spid, yr, num, unnamed) ==
  [h \in ProjHeaders |->
     CASE h = "Project Name" -> pn
       [] h = "Project ID" -> pid
       [] h = "Subproject Name" -> spn
       [] h = "Subproject ID" -> spid
       [] h = "Year Announced" -> yr
       [] h = "Numbers" -> num
       [] h = UnnamedHeader -> unnamed
       [] OTHER -> NaN]

DistRow(pn, pid, spn, spid, did, num, unnamed) ==
  [h \in DistHeaders |->
     CASE h = "Project Name" -> pn
       [] h = "Project ID" -> pid
       [] h = "Subproject Name" -> spn
       [] h = "Subproject ID" -> spid
       [] h = "Distribution ID" -> did
       [] h = "Numbers" -> num
       [] h = UnnamedHeader -> unnamed
       [] OTHER -> NaN]

ProjRowSamples ==
  { ProjRow(PyStr(<<"A">>), PyStr(<<"1">>), Dash, NaN,
            PyStr(<<"2", "0", "2", "0", "-", "2", "0", "2", "1">>),
            PyStr(<<"$", "1", ",", "0", "0", "0">>), NaN),
    ProjRow(PyStr(<<" ", "a">>), PyInt(<<"2">>), NaN, NaN, PyInt(<<"2", "0", "2", "0">>),
            NaN, NaN),
    ProjRow(PyStr(<<"A">>), PyStr(<<"1">>), PyStr(<<"B">>), PyInt(<<"7">>), NaN,
            PyStr(<<"a", "b", "c">>), PyStr(<<"x">>)),
    ProjRow(NaN, NaN, NaN, NaN, NaN, NaN, PyStr(<<"x">>)) }

DistRowSamples ==
  { DistRow(PyStr(<<"A">>), PyStr(<<"1">>), NaN, Dash, PyStr(<<"d", "1">>),
            PyInt(<<"5">>), NaN),
    DistRow(PyStr(<<"a">>), PyStr(<<"1">>), Empty, NaN, PyStr(<<"d", "2">>), NaN, NaN),
    DistRow(PyStr(<<"A", " ">>), PyStr(<<"1">>), PyStr(<<"B">>), PyStr(<<"7">>),
            PyStr(<<"d", "3">>), Dash, NaN),
    DistRow(PyStr(<<"A">>), PyStr(<<"1">>), PyStr(<<"b">>), PyStr(<<"8">>),
            PyStr(<<"d", "4">>), NaN, NaN),
    DistRow(PyStr(<<"a">>), PyStr(<<"2">>), Dash, NaN, NaN, NaN, NaN),
    DistRow(NaN, NaN, NaN, NaN, NaN, NaN, NaN) }

\* the sets of headers a sheet may lack
ProjMissingChoices == { {}, {"Project ID"}, {"Numbers", "Year Announced"} }

DistMissingChoices == { {}, {"Project ID"}, {"Numbers"}, {"Project Name"} }

Sheet(headers, rows) ==
  [cols |-> headers,
   rows |-> [k \in 1..Len(rows) |-> [h \in headers |-> rows[k][h]]]]

Workbook(ps, ds) ==
  [exists |-> TRUE, has_proj |-> TRUE, has_dist |-> TRUE, proj |-> ps, dist |-> ds]

\* a workbook of a few sample rows with every header present, to exercise the
\* matching
TableFile ==
  \E np \in 0..MaxProjRows, nd \in 0..MaxDistRows :
    \E pr \in [1..np -> ProjRowSamples], dr \in [1..nd -> DistRowSamples] :
      file = Workbook(Sheet(ProjHeaders, pr), Sheet(DistHeaders, dr))

\* a workbook of at most one row a sheet, some headers absent
MissingFile ==
  \E pm \in ProjMissingChoices, dm \in DistMissingChoices, np \in 0..1, nd \in 0..1 :
    \E pr \in [1..np -> ProjRowSamples], dr \in [1..nd -> DistRowSamples] :
      file = Workbook(Sheet(ProjHeaders \ pm, pr), Sheet(DistHeaders \ dm, dr))

Alphabet == {" ", "-", "a", "A", "2"}

SampleCells ==
  { NaN, None, PyInt(<<"2", "0", "2", "0">>),
    PyStr(<<"EMDASH">>), PyStr(<<"ENDASH">>), PyStr(<<" ", "BACKTICK">>),
    PyStr(<<"n", "a", "n">>), PyStr(<<"N", "a", "N", " ">>),
    PyStr(<<" ", "N", "o", "n", "e">>), PyStr(<<"\t", "-", "\t">>),
    PyStr(<<"$", "1", ",", "0", "0", "0">>), PyStr(<<" ", "a", "b", "c">>),
    PyStr(<<"2", "0", "2", "0", "-", "2", "0", "2", "1">>),
    PyStr(<<"2", "0", "2", "0">>) }

ProjKnownHeaders == ProjHeaders \ {UnnamedHeader}

DistHeaderOf(h) == IF h = "Country / Region" THEN "Country" ELSE h

\* the workbook of one project row and one distribution row with the same
\* key, holding the raw value x in the column of header h
CellWorkbook(h, x) ==
  LET base == ProjRow(PyStr(<<"A">>), NaN, NaN, NaN, NaN, NaN, NaN)
      dbase == DistRow(PyStr(<<"A">>), NaN, NaN, NaN, PyStr(<<"d", "1">>), NaN, NaN)
  IN Workbook(Sheet(ProjHeaders, << [base EXCEPT ![h] = x] >>),
              Sheet(DistHeaders, << [dbase EXCEPT ![DistHeaderOf(h)] = x] >>))

\* such a workbook for every known column and every raw value: the strings
\* of at most MaxLen characters and the sample cells
CellFile ==
  \E h \in ProjKnownHeaders :
    \/ \E n \in 0..MaxLen : \E s \in [1..n -> Alphabet] : file = CellWorkbook(h, PyStr(s))
    \/ \E x \in SampleCells : file = CellWorkbook(h, x)

\* a workbook load_sheets cannot read
BadFile ==
  LET w == Workbook(Sheet(ProjHeaders, <<>>), Sheet(DistHeaders, <<>>))
  IN file \in { [w EXCEPT !.exists = FALSE, !.has_proj = FALSE, !.has_dist = FALSE],
                [w EXCEPT !.has_proj = FALSE], [w EXCEPT !.has_dist = FALSE] }

Init ==
  /\ (TableFile \/ MissingFile \/ CellFile \/ BadFile)
  /\ pc = "start"
  /\ proj = NoFrame
  /\ dist = NoFrame
  /\ entries = <<>>
  /\ subsets = <<>>
  /\ out_file = [exists |-> FALSE, content |-> <<>>]
  /\ writes = 0
  /\ printed = -1
  /\ error = "none"

Spec == Init /\ [][Next]_vars

\* ------------------------------------------------------------ properties
\* both frames have been through prepare
Prepared == pc \in {"prepared", "written", "done"} \/ error = "KeyError"

NormCols == TextCols \cup IdCols \cup {"year_announced", "numbers"}

\* the raw cell of the workbook behind column n of the frame row labelled i
RawProj(i, n) ==
  file.proj.rows[i + 1][CHOOSE h \in file.proj.cols : ProjRename(h) = n]

RawDist(i, n) ==
  file.dist.rows[i + 1][CHOOSE h \in file.dist.cols : DistRename(h) = n]

PlaceholderTexts ==
  { <<>>, <<"-">>, <<"EMDASH">>, <<"ENDASH">>, <<"BACKTICK">>,
    <<"n", "a", "n">>, <<"N", "a", "N">>, <<"N", "o", "n", "e">> }

\* the cell is missing or its trimmed text is a placeholder
Missing(x) == x.t = "none" \/ strip(Str(x)) \in PlaceholderTexts

\* the trimmed text of a cell
Trimmed(x) == PyStr(strip(Str(x)))

RowsOf(df) == {df.rows[k] : k \in 1..Len(df.rows)}

\* C3: a cell that is missing or whose trimmed text is a placeholder is
\* normalised to "" in a text, id or year column and to "-" in the numbers
\* column, in both sheets.
C3_PlaceholdersNormalise ==
  Prepared =>
    /\ \A r \in RowsOf(proj) : \A n \in proj.cols \cap NormCols :
         Missing(RawProj(r.idx, n)) =>
           r.c[n] = IF n = "numbers" THEN Dash ELSE Empty
    /\ \A r \in RowsOf(dist) : \A n \in dist.cols \cap NormCols :
         Missing(RawDist(r.idx, n)) =>
           r.c[n] = IF n = "numbers" THEN Dash ELSE Empty

\* a padded backtick in the numbers column and a blank cell in a text column
\* have been normalised
C3_Witness ==
  /\ Prepared
  /\ \E r \in RowsOf(proj) :
       /\ "numbers" \in proj.cols /\ "notes" \in proj.cols
       /\ RawProj(r.idx, "numbers") = PyStr(<<" ", "BACKTICK">>)
       /\ r.c["numbers"] = Dash
       /\ RawProj(r.idx, "notes") = NaN
       /\ r.c["notes"] = Empty

\* the entry built from the project frame row r, once it is built
EntryBuilt(r) == \E k \in 1..Len(entries) : proj.rows[k] = r

EntryFor(r) == entries[CHOOSE k \in 1..Len(entries) : proj.rows[k] = r]

\* C7 as stated: a numbers cell that is no placeholder has its currency
\* symbols and thousands separators stripped and is parsed, a parseable one
\* becoming a number and any other staying its trimmed text.
C7_Original ==
  Prepared =>
    \A r \in RowsOf(proj) :
      ("numbers" \in proj.cols /\ ~Missing(RawProj(r.idx, "numbers"))) =>
        r.c["numbers"] = ParseNumberLike(RawProj(r.idx, "numbers"))

\* C7 amended: a numbers cell that is no placeholder becomes its trimmed text,
\* a string, with nothing stripped from it and nothing parsed, in both prepared
\* frames and in the entry.
C7_NumbersKeptAsText ==
  Prepared =>
    /\ \A r \in RowsOf(proj) :
         ("numbers" \in proj.cols /\ ~Missing(RawProj(r.idx, "numbers"))) =>
           /\ r.c["numbers"] = Trimmed(RawProj(r.idx, "numbers"))
           /\ EntryBuilt(r) => EntryFor(r).numbers = Trimmed(RawProj(r.idx, "numbers"))
    /\ \A r \in RowsOf(dist) :
         ("numbers" \in dist.cols /\ ~Missing(RawDist(r.idx, "numbers"))) =>
           r.c["numbers"] = Trimmed(RawDist(r.idx, "numbers"))

\* the entry of a project row whose numbers cell is "$1,000" carries the
\* string "$1,000"
C7_Witness ==
  /\ Prepared
  /\ "numbers" \in proj.cols
  /\ \E r \in RowsOf(proj) :
       /\ RawProj(r.idx, "numbers") = PyStr(<<"$", "1", ",", "0", "0", "0">>)
       /\ EntryBuilt(r)
       /\ EntryFor(r).numbers = PyStr(<<"$", "1", ",", "0", "0", "0">>)

\* C8 as stated: a year_announced cell becomes its leading run of four digits
\* when its trimmed text starts with one, else its trimmed text.
C8_Original ==
  Prepared =>
    \A r \in RowsOf(proj) :
      ("year_announced" \in proj.cols
         /\ ~Missing(RawProj(r.idx, "year_announced"))
         /\ EntryBuilt(r)) =>
        EntryFor(r).year_announced = LeadingYear(RawProj(r.idx, "year_announced"))

\* C8 amended: a year_announced cell becomes "" when it is a placeholder and
\* else its whole trimmed text, a leading run of four digits not being cut out
\* of it, in the prepared frames and in the entry.
C8_YearKeptWhole ==
  Prepared =>
    /\ \A r \in RowsOf(proj) :
         "year_announced" \in proj.cols =>
           LET x == RawProj(r.idx, "year_announced")
               want == IF Missing(x) THEN Empty ELSE Trimmed(x)
           IN /\ r.c["year_announced"] = want
              /\ EntryBuilt(r) => EntryFor(r).year_announced = want
    /\ \A r \in RowsOf(dist) :
         "year_announced" \in dist.cols =>
           LET x == RawDist(r.idx, "year_announced")
           IN r.c["year_announced"] = IF Missing(x) THEN Empty ELSE Trimmed(x)

\* the entry of a project row whose year cell is "2020-2021" carries
\* "2020-2021"
C8_Witness ==
  /\ Prepared
  /\ "year_announced" \in proj.cols
  /\ \E r \in RowsOf(proj) :
       /\ RawProj(r.idx, "year_announced")
            = PyStr(<<"2", "0", "2", "0", "-", "2", "0", "2", "1">>)
       /\ EntryBuilt(r)
       /\ EntryFor(r).year_announced
            = PyStr(<<"2", "0", "2", "0", "-", "2", "0", "2", "1">>)

\* C10: normalising a normalised value changes nothing, for each of the three
\* normalisers, and so the entry's project_id, subproject_id, subproject_name
\* and year_announced, and with them its key, are those of the prepared row.
C10_NormaliseIdempotent ==
  Prepared =>
    /\ \A r \in RowsOf(proj) \cup RowsOf(dist) : \A n \in DOMAIN r.c :
         /\ n \in TextCols \cup {"year_announced"} => normalize_string(r.c[n]) = r.c[n]
         /\ n \in IdCols => normalize_id(r.c[n]) = r.c[n]
         /\ n = "numbers" => normalize_number_like(r.c[n]) = r.c[n]
    /\ \A r \in RowsOf(proj) :
         EntryBuilt(r) =>
           /\ EntryFor(r).project_name = Get(r.c, "project_name", Empty)
           /\ EntryFor(r).project_id = Get(r.c, "project_id", Empty)
           /\ EntryFor(r).subproject_name = Get(r.c, "subproject_name", Empty)
           /\ EntryFor(r).subproject_id = Get(r.c, "subproject_id", Empty)
           /\ EntryFor(r).year_announced = Get(r.c, "year_announced", Empty)

\* an entry is built from a project row whose id cell had padding to trim
C10_Witness ==
  /\ Prepared
  /\ "project_id" \in proj.cols
  /\ \E r \in RowsOf(proj) :
       /\ RawProj(r.idx, "project_id") = PyStr(<<" ", "a", " ">>)
       /\ r.c["project_id"] = PyStr(<<"a">>)
       /\ EntryBuilt(r)
       /\ EntryFor(r).project_id = PyStr(<<"a">>)

\* the members of a set of numbers, in ascending order
RECURSIVE Ascending(_)
Ascending(S) ==
  IF S = {} THEN <<>>
  ELSE LET m == CHOOSE x \in S : \A y \in S : x <= y
       IN <<m>> \o Ascending(S \ {m})

KeyOfEntry(e) == <<e.project_name, e.project_id, e.subproject_name, e.subproject_id>>

KeyOfRow(c) ==
  <<c["project_name"], c["project_id"], c["subproject_name"], c["subproject_id"]>>

\* the positions of the distribution rows whose key is exactly the entry's
ExactPos(e) ==
  {j \in 1..Len(dist.rows) : KeyOfRow(dist.rows[j].c) = KeyOfEntry(e)}

\* the positions of the distribution rows that match the entry with the names
\* compared without case, the subproject_id exactly, the project_id not at all
RelaxedPos(e) ==
  {j \in 1..Len(dist.rows) :
     /\ lower(dist.rows[j].c["project_name"].v) = lower(e.project_name.v)
     /\ lower(dist.rows[j].c["subproject_name"].v) = lower(e.subproject_name.v)
     /\ dist.rows[j].c["subproject_id"] = e.subproject_id}

\* the rows at the positions S, in the table's order: their labels, and what
\* an entry lists of them
LabelsAt(S) == [i \in 1..Cardinality(S) |-> dist.rows[Ascending(S)[i]].idx]

ListedAt(S) == [i \in 1..Cardinality(S) |-> DistOut(dist.rows[Ascending(S)[i]].c)]

\* how often the distribution row at position j is in the list of entry k
Occurrences(j, k) ==
  Cardinality({i \in 1..Len(subsets[k]) : subsets[k][i] = dist.rows[j].idx})

\* C1: an entry that some distribution row matches on all four key fields
\* lists exactly the rows that do, each once for each source row, in the
\* table's order, and none that matches only without case.
C1_StrictMatchExact ==
  \A k \in 1..Len(entries) :
    ExactPos(entries[k]) # {} =>
      /\ subsets[k] = LabelsAt(ExactPos(entries[k]))
      /\ entries[k].distributions = ListedAt(ExactPos(entries[k]))

\* an entry lists its one strictly matching row and leaves out a row that
\* matches it only without case
C1_Witness ==
  \E k \in 1..Len(entries) :
    /\ ExactPos(entries[k]) # {}
    /\ RelaxedPos(entries[k]) \ ExactPos(entries[k]) # {}
    /\ Len(entries[k].distributions) = Cardinality(ExactPos(entries[k]))

\* C2: an entry that no distribution row matches on all four key fields lists
\* exactly the rows of the relaxed comparison, in the table's order; so every
\* listed row matches its entry one way or the other, and the list is empty
\* when no row matches either way.
C2_FallbackMatch ==
  \A k \in 1..Len(entries) :
    /\ ExactPos(entries[k]) = {} =>
         /\ subsets[k] = LabelsAt(RelaxedPos(entries[k]))
         /\ entries[k].distributions = ListedAt(RelaxedPos(entries[k]))
    /\ \A j \in 1..Len(dist.rows) :
         Occurrences(j, k) > 0 =>
           j \in ExactPos(entries[k]) \cup RelaxedPos(entries[k])
    /\ ExactPos(entries[k]) \cup RelaxedPos(entries[k]) = {} =>
         entries[k].distributions = <<>>

\* an entry without a strict match lists a row whose project_id differs and
\* whose project_name differs in case
C2_Witness ==
  \E k \in 1..Len(entries) :
    /\ ExactPos(entries[k]) = {}
    /\ \E j \in RelaxedPos(entries[k]) :
         /\ dist.rows[j].c["project_id"] # entries[k].project_id
         /\ dist.rows[j].c["project_name"] # entries[k].project_name
         /\ Occurrences(j, k) = 1

\* C4 as stated: once convert has built at least one entry, every distribution
\* row is in the list of some entry, and the entries listing it are exactly
\* those whose key is the row's.
C4_Original ==
  (pc \in {"written", "done"} /\ Len(entries) >= 1) =>
    \A j \in 1..Len(dist.rows) :
      LET holders == {k \in 1..Len(entries) : Occurrences(j, k) > 0}
          sharers == {k \in 1..Len(entries) :
                        KeyOfEntry(entries[k]) = KeyOfRow(dist.rows[j].c)}
      IN holders # {} /\ holders = sharers

\* C4 amended: after convert a distribution row is once in the list of every
\* entry whose key is the row's, once in the list of every entry that has no
\* strictly matching row and matches it under the relaxed comparison, and in
\* no other list; a row that no entry matches is in none.
C4_RowsAttachedWhereMatched ==
  pc \in {"written", "done"} =>
    \A j \in 1..Len(dist.rows) : \A k \in 1..Len(entries) :
      Occurrences(j, k) =
        IF \/ j \in ExactPos(entries[k])
           \/ ExactPos(entries[k]) = {} /\ j \in RelaxedPos(entries[k])
          THEN 1 ELSE 0

\* after convert one distribution row is listed by an entry and another by
\* none
C4_Witness ==
  /\ pc = "done"
  /\ \E j \in 1..Len(dist.rows) : \E k \in 1..Len(entries) :
       j \in ExactPos(entries[k]) /\ Occurrences(j, k) = 1
  /\ \E j \in 1..Len(dist.rows) : \A k \in 1..Len(entries) : Occurrences(j, k) = 0

Loadable == file.exists /\ file.has_proj /\ file.has_dist

\* C5: a run over a workbook whose sheets lack known columns, the key columns
\* of the Distribution Sheet among them, still completes.
C5_MissingColumnRecovered ==
  (Loadable /\ ~(DistHeaders \subseteq file.dist.cols)) => pc # "error"

\* C6: the output is written once, after both sheets are loaded and prepared
\* and every entry is built; a run that fails has written nothing, and a
\* workbook that cannot be loaded is not processed at all.
C6_AllOrNothing ==
  /\ writes \in {0, 1}
  /\ out_file.exists <=> writes = 1
  /\ out_file.exists =>
       /\ pc \in {"written", "done"}
       /\ error = "none"
       /\ Loadable
       /\ proj = prepare(LoadProj(file.proj))
       /\ Len(entries) = Len(proj.rows)
       /\ out_file.content = entries
  /\ pc = "error" <=> error # "none"
  /\ pc = "error" => (~out_file.exists /\ writes = 0 /\ printed = -1)
  /\ ~Loadable => (pc \in {"start", "error"} /\ entries = <<>>)
  /\ (~file.exists /\ pc = "error") => error = "FileNotFoundError"

\* a run has failed while matching and has written nothing
C6_Witness ==
  /\ pc = "error"
  /\ error = "KeyError"
  /\ Len(proj.rows) >= 1
  /\ ~out_file.exists
  /\ writes = 0

\* the positions of the project sheet rows with a value in a named column
NonBlank ==
  {j \in 1..Len(file.proj.rows) :
     \E h \in file.proj.cols \ {UnnamedHeader} : ~IsNA(file.proj.rows[j][h])}

\* what the entry field n of the project sheet row j is to hold
Want(j, n) ==
  LET hs == {h \in file.proj.cols : ProjRename(h) = n}
      x == file.proj.rows[j][CHOOSE h \in hs : TRUE]
  IN IF hs = {} \/ Missing(x)
       THEN (IF n = "numbers" THEN Dash ELSE Empty)
       ELSE Trimmed(x)

====
